---- MODULE Spec2Model ----
(***************************************************************************)
(* Budget-constrained context assembly (context-window-aware RAG).         *)
(*                                                                         *)
(* Text is a sequence of one-character strings.  Token counts are those of *)
(* TokenCounter's character-based approximation (the mode the code runs in *)
(* when tiktoken cannot be imported).  Python's 0-based indices and slices *)
(* are translated to 1-based SubSeq; an index result such as rfind's is    *)
(* kept 0-based, with -1 for "not found", as in the source.                *)
(***************************************************************************)
EXTENDS Integers, Sequences, FiniteSets, TLC

(***************************************************************************)
(* Bounds of the model.                                                    *)
(***************************************************************************)
MaxItems == 3        \* longest memory-item list given to truncate_memory
MaxRecords == 3      \* longest record list given to truncate_tool_outputs
MaxChunks == 3       \* longest chunk list given to truncate_retrieval
MaxPieces == 3       \* pieces a goal text is built from
MaxAdds == 2         \* exchanges added to the conversation memory
MaxToolAdds == 2     \* tool outputs added to the tool manager
MaxSaid == 7         \* exchanges one conversation adds between two clears

(***************************************************************************)
(* Program constants.                                                      *)
(***************************************************************************)
CHARS_PER_TOKEN == 4
MARKER_RESERVE == 3
MIN_PARTIAL == 50

----------------------------------------------------------------------------
(***************************************************************************)
(* Python str primitives.                                                  *)
(***************************************************************************)
Max(a, b) == IF a >= b THEN a ELSE b
Min(a, b) == IF a <= b THEN a ELSE b

\* str.isspace for the characters the model uses
IsSpace(c) == c \in {" ", "\n"}

\* text[:k] for k >= 0
Prefix(t, k) == SubSeq(t, 1, Min(k, Len(t)))

\* text[k:] for k >= 0
DropFirst(t, k) == SubSeq(t, Min(k, Len(t)) + 1, Len(t))

\* text[-k:] for k >= 0; Python reads -0 as 0, so text[-0:] is the whole text
Suffix(t, k) == IF k = 0 THEN t ELSE SubSeq(t, Max(Len(t) - k, 0) + 1, Len(t))

\* text.strip()
strip(t) ==
    LET ns == {i \in 1..Len(t) : ~IsSpace(t[i])}
    IN  IF ns = {} THEN <<>>
        ELSE SubSeq(t, CHOOSE i \in ns : \A j \in ns : i <= j,
                       CHOOSE i \in ns : \A j \in ns : i >= j)

\* text.rfind(c): 0-based index of the last c, -1 when there is none
rfind(t, c) ==
    LET at == {i \in 1..Len(t) : t[i] = c}
    IN  IF at = {} THEN -1 ELSE (CHOOSE i \in at : \A j \in at : i >= j) - 1

\* text.find(c): 0-based index of the first c, -1 when there is none
find(t, c) ==
    LET at == {i \in 1..Len(t) : t[i] = c}
    IN  IF at = {} THEN -1 ELSE (CHOOSE i \in at : \A j \in at : i <= j) - 1

\* len(' '.join(text.split())): the words' characters plus one space between
\* consecutive words
CleanedLen(t) ==
    LET ns == {i \in 1..Len(t) : ~IsSpace(t[i])}
        starts == {i \in ns : i = 1 \/ IsSpace(t[i - 1])}
    IN  IF ns = {} THEN 0 ELSE Cardinality(ns) + Cardinality(starts) - 1

\* sep.join(parts)
RECURSIVE join(_, _)
join(sep, parts) ==
    IF Len(parts) = 0 THEN <<>>
    ELSE IF Len(parts) = 1 THEN parts[1]
    ELSE parts[1] \o sep \o join(sep, Tail(parts))

\* piece * n
Rep(piece, n) == [i \in 1..(n * Len(piece)) |-> piece[((i - 1) % Len(piece)) + 1]]

\* str(i) for 0 <= i <= 99
Digit(d) == <<"0", "1", "2", "3", "4", "5", "6", "7", "8", "9">>[d + 1]
IntStr(i) == IF i < 10 THEN <<Digit(i)>> ELSE <<Digit(i \div 10), Digit(i % 10)>>

----------------------------------------------------------------------------
(***************************************************************************)
(* TokenCounter (character-based approximation).                           *)
(***************************************************************************)
count_tokens(text) ==
    IF Len(text) = 0 THEN 0
    ELSE Max(1, CleanedLen(text) \div CHARS_PER_TOKEN)

fits_budget(text, budget) == count_tokens(text) <= budget

\* the binary search of truncate_to_budget for the longest prefix that
\* leaves MARKER_RESERVE tokens for the marker
RECURSIVE BestTruncation(_, _, _, _, _)
BestTruncation(text, budget, left, right, best) ==
    IF left < right
    THEN LET mid == (left + right + 1) \div 2
             candidate == Prefix(text, mid)
         IN  IF count_tokens(candidate) <= budget - MARKER_RESERVE
             THEN BestTruncation(text, budget, mid, right, candidate)
             ELSE BestTruncation(text, budget, left, mid - 1, best)
    ELSE best

Ellipsis == <<".", ".", ".">>

truncate_to_budget(text, budget) ==
    IF count_tokens(text) <= budget THEN text
    ELSE LET best == BestTruncation(text, budget, 0, Len(text), <<>>)
             truncated == strip(best)
             last_space == rfind(truncated, " ")
             \* last_space > len(truncated) * 0.8
             cut == IF 5 * last_space > 4 * Len(truncated)
                    THEN Prefix(truncated, last_space)
                    ELSE truncated
         IN  cut \o Ellipsis

----------------------------------------------------------------------------
(***************************************************************************)
(* String literals of the source's f-strings.                              *)
(***************************************************************************)
GapMarker == <<" ", "[", ".", ".", ".", "]", " ">>
SourceOpen == <<"[", "S", "o", "u", "r", "c", "e", " ">>
Colon == <<":", " ">>
RelevanceSep == <<",", " ", "R", "e", "l", "e", "v", "a", "n", "c", "e",
    ":", " ">>
CloseNl == <<"]", "\n">>
OutputOpen == <<"[", "O", "u", "t", "p", "u", "t", " ">>
Dash == <<" ", "-", " ">>
SUCCESS == <<"S", "U", "C", "C", "E", "S", "S">>
FAILED == <<"F", "A", "I", "L", "E", "D">>
ToolOutputOpen == <<"[", "T", "o", "o", "l", " ", "O", "u", "t", "p", "u",
    "t", " ", "-", " ">>
UserLabel == <<"U", "s", "e", "r", ":", " ">>
AssistantLabel == <<"\n", "A", "s", "s", "i", "s", "t", "a", "n", "t", ":",
    " ">>
ExchangeLabel == <<"E", "x", "c", "h", "a", "n", "g", "e", " ">>
ColonNl == <<":", "\n">>
UserContextLabel == <<"U", "s", "e", "r", " ", "C", "o", "n", "t", "e", "x",
    "t", ":", " ">>
CommaSep == <<",", " ">>
Nl == <<"\n">>
NlNl == <<"\n", "\n">>
Open == <<"[">>

\* f"{score:.3f}" of a score held in thousandths (0 <= score < 10000)
ScoreStr(score) ==
    <<Digit(score \div 1000), ".", Digit((score \div 100) % 10),
      Digit((score \div 10) % 10), Digit(score % 10)>>

----------------------------------------------------------------------------
(***************************************************************************)
(* Prioritizer: the per-section truncation strategies.                     *)
(***************************************************************************)
\* truncate_instructions cutting over-budget instructions like any other text
truncate_instructions_cut(instructions, budget) ==
    truncate_to_budget(instructions, budget)

truncate_instructions(instructions, budget) == instructions

truncate_goal(goal, budget) ==
    IF count_tokens(goal) <= budget THEN goal
    ELSE LET target_chars == budget * CHARS_PER_TOKEN
             \* int(target_chars * 0.4)
             start_chars == (4 * target_chars) \div 10
             end_chars == (4 * target_chars) \div 10
             start0 == strip(Prefix(goal, start_chars))
             end0 == strip(Suffix(goal, end_chars))
             start_last_period == rfind(start0, ".")
             \* start_last_period > start_chars * 0.7
             start_part == IF 10 * start_last_period > 7 * start_chars
                           THEN Prefix(start0, start_last_period + 1)
                           ELSE start0
             end_first_period == find(end0, ".")
             \* end_first_period != -1 and end_first_period < end_chars * 0.3
             end_part == IF /\ end_first_period # -1
                            /\ 10 * end_first_period < 3 * end_chars
                         THEN strip(DropFirst(end0, end_first_period + 1))
                         ELSE end0
         IN  start_part \o GapMarker \o end_part

\* the loop of truncate_memory over reversed(memory_items): i is the item
\* looked at, selected the items kept so far (oldest first)
RECURSIVE MemoryLoop(_, _, _, _, _)
MemoryLoop(items, budget, i, selected, total) ==
    IF i = 0 THEN selected
    ELSE LET item_tokens == count_tokens(items[i])
         IN  IF total + item_tokens <= budget
             THEN MemoryLoop(items, budget, i - 1, <<items[i]>> \o selected,
                             total + item_tokens)
             ELSE selected

\* truncate_memory's loop with continue in place of break: an item that does
\* not fit is skipped and older items are still looked at
RECURSIVE MemoryLoopSkip(_, _, _, _, _)
MemoryLoopSkip(items, budget, i, selected, total) ==
    IF i = 0 THEN selected
    ELSE LET item_tokens == count_tokens(items[i])
         IN  IF total + item_tokens <= budget
             THEN MemoryLoopSkip(items, budget, i - 1, <<items[i]>> \o selected,
                                 total + item_tokens)
             ELSE MemoryLoopSkip(items, budget, i - 1, selected, total)

SelectMemorySkip(memory_items, budget) ==
    MemoryLoopSkip(memory_items, budget, Len(memory_items), <<>>, 0)

SelectMemory(memory_items, budget) ==
    MemoryLoop(memory_items, budget, Len(memory_items), <<>>, 0)

truncate_memory(memory_items, budget) ==
    IF Len(memory_items) = 0 THEN <<>>
    ELSE join(Nl, SelectMemory(memory_items, budget))

\* sorted(xs, key=..., reverse=True) as the indices 1..n of xs in their new
\* order: greater[i][j] is key(xs[i]) > key(xs[j]); equal keys keep their
\* original order
SortedIdx(n, greater) ==
    LET before(i, j) == \/ greater[i][j]
                        \/ (~greater[j][i] /\ i < j)
        rank(i) == 1 + Cardinality({j \in 1..n : before(j, i)})
    IN  [k \in 1..n |-> CHOOSE i \in 1..n : rank(i) = k]

ScoreGreater(a, b) == a.score > b.score

SortChunks(chunks) ==
    LET n == Len(chunks)
        idx == SortedIdx(n, [i \in 1..n |-> [j \in 1..n |->
                                ScoreGreater(chunks[i], chunks[j])]])
    IN  [k \in 1..Len(chunks) |-> chunks[idx[k]]]

\* the selection loop of truncate_retrieval over sorted_chunks
RECURSIVE RetrievalLoop(_, _, _, _, _)
RetrievalLoop(sorted, budget, i, selected, total) ==
    IF i > Len(sorted) THEN selected
    ELSE LET chunk == sorted[i]
         IN  IF total + chunk.tokens <= budget
             THEN RetrievalLoop(sorted, budget, i + 1, Append(selected, chunk),
                                total + chunk.tokens)
             ELSE LET remaining_budget == budget - total
                  IN  IF remaining_budget > MIN_PARTIAL
                      THEN Append(selected,
                                  [content |-> truncate_to_budget(chunk.content,
                                                                  remaining_budget),
                                   score |-> chunk.score,
                                   source |-> chunk.source,
                                   tokens |-> remaining_budget])
                      ELSE selected

\* truncate_retrieval's loop with continue in place of break: chunks after
\* the one that did not fit are still looked at
RECURSIVE RetrievalLoopContinue(_, _, _, _, _)
RetrievalLoopContinue(sorted, budget, i, selected, total) ==
    IF i > Len(sorted) THEN selected
    ELSE LET chunk == sorted[i]
         IN  IF total + chunk.tokens <= budget
             THEN RetrievalLoopContinue(sorted, budget, i + 1,
                                        Append(selected, chunk), total + chunk.tokens)
             ELSE LET remaining_budget == budget - total
                  IN  IF remaining_budget > MIN_PARTIAL
                      THEN RetrievalLoopContinue(sorted, budget, i + 1,
                               Append(selected,
                                      [content |-> truncate_to_budget(chunk.content,
                                                                      remaining_budget),
                                       score |-> chunk.score,
                                       source |-> chunk.source,
                                       tokens |-> remaining_budget]),
                               total)
                      ELSE RetrievalLoopContinue(sorted, budget, i + 1, selected, total)

\* truncate_retrieval's loop adding a partial chunk whenever any budget is
\* left, however little
RECURSIVE RetrievalLoopAnyPartial(_, _, _, _, _)
RetrievalLoopAnyPartial(sorted, budget, i, selected, total) ==
    IF i > Len(sorted) THEN selected
    ELSE LET chunk == sorted[i]
         IN  IF total + chunk.tokens <= budget
             THEN RetrievalLoopAnyPartial(sorted, budget, i + 1,
                                          Append(selected, chunk), total + chunk.tokens)
             ELSE LET remaining_budget == budget - total
                  IN  IF remaining_budget > 0
                      THEN Append(selected,
                                  [content |-> truncate_to_budget(chunk.content,
                                                                  remaining_budget),
                                   score |-> chunk.score,
                                   source |-> chunk.source,
                                   tokens |-> remaining_budget])
                      ELSE selected

SelectRetrievalAnyPartial(chunks, budget) ==
    RetrievalLoopAnyPartial(SortChunks(chunks), budget, 1, <<>>, 0)

SelectRetrievalContinue(chunks, budget) ==
    RetrievalLoopContinue(SortChunks(chunks), budget, 1, <<>>, 0)

SelectRetrieval(chunks, budget) ==
    RetrievalLoop(SortChunks(chunks), budget, 1, <<>>, 0)

FormatChunk(i, chunk) ==
    SourceOpen \o IntStr(i) \o Colon \o chunk.source \o RelevanceSep
        \o ScoreStr(chunk.score) \o CloseNl \o chunk.content

truncate_retrieval(chunks, budget) ==
    IF Len(chunks) = 0 THEN <<>>
    ELSE LET selected == SelectRetrieval(chunks, budget)
         IN  join(NlNl, [i \in 1..Len(selected) |-> FormatChunk(i, selected[i])])

\* the sort key without its success component: key=lambda x: x.timestamp
ToolKeyGreaterByTime(a, b) == a.timestamp > b.timestamp

\* key=lambda x: (x.success, x.timestamp), compared as Python compares tuples
ToolKeyGreater(a, b) ==
    \/ (a.success /\ ~b.success)
    \/ (a.success = b.success /\ a.timestamp > b.timestamp)

\* the indices of outputs, successful first and then newest first
SortOutputsIdx(outputs) ==
    LET n == Len(outputs)
    IN  SortedIdx(n, [i \in 1..n |-> [j \in 1..n |->
                         ToolKeyGreater(outputs[i], outputs[j])]])

\* the selection loop of truncate_tool_outputs: the sorted positions kept
RECURSIVE ToolLoop(_, _, _, _, _)
ToolLoop(outputs, idx, budget, i, total) ==
    IF i > Len(idx) THEN i - 1
    ELSE IF total + outputs[idx[i]].tokens <= budget
         THEN ToolLoop(outputs, idx, budget, i + 1, total + outputs[idx[i]].tokens)
         ELSE i - 1

\* truncate_tool_outputs' loop with continue in place of break: a record that
\* does not fit is skipped and later records are still looked at
RECURSIVE ToolLoopSkip(_, _, _, _, _, _)
ToolLoopSkip(outputs, idx, budget, i, total, sel) ==
    IF i > Len(idx) THEN sel
    ELSE IF total + outputs[idx[i]].tokens <= budget
         THEN ToolLoopSkip(outputs, idx, budget, i + 1,
                           total + outputs[idx[i]].tokens, Append(sel, idx[i]))
         ELSE ToolLoopSkip(outputs, idx, budget, i + 1, total, sel)

SelectToolIdxSkip(outputs, budget) ==
    ToolLoopSkip(outputs, SortOutputsIdx(outputs), budget, 1, 0, <<>>)

\* the indices (into outputs) of the records kept, in output order
SelectToolIdx(outputs, budget) ==
    LET idx == SortOutputsIdx(outputs)
    IN  SubSeq(idx, 1, ToolLoop(outputs, idx, budget, 1, 0))

StatusStr(success) == IF success THEN SUCCESS ELSE FAILED

FormatOutput(i, output) ==
    OutputOpen \o IntStr(i) \o Dash \o StatusStr(output.success) \o CloseNl
        \o output.content

truncate_tool_outputs(outputs, budget) ==
    IF Len(outputs) = 0 THEN <<>>
    ELSE LET sel == SelectToolIdx(outputs, budget)
         IN  join(NlNl, [i \in 1..Len(sel) |-> FormatOutput(i, outputs[sel[i]])])

\* priority_order without the section that is never truncated
priority_order_truncatable == <<"memory", "tool_outputs", "retrieval", "goal">>

\* priority_order listed most protected first
priority_order_reversed ==
    <<"instructions", "goal", "retrieval", "tool_outputs", "memory">>

\* priority_order of prioritize_sections: least protected first
priority_order == <<"memory", "tool_outputs", "retrieval", "goal", "instructions">>

RECURSIVE FilterSeq(_, _)
FilterSeq(s, keep) ==
    IF Len(s) = 0 THEN <<>>
    ELSE IF s[1] \in keep THEN <<s[1]>> \o FilterSeq(Tail(s), keep)
    ELSE FilterSeq(Tail(s), keep)

\* a truncation plan naming every section, over budget or not
prioritize_sections_all(overages) == priority_order

\* the sections of the truncation plan, in order; overages is a function from
\* the sections over budget to their overage
prioritize_sections(overages) == FilterSeq(priority_order, DOMAIN overages)

----------------------------------------------------------------------------
(***************************************************************************)
(* State.                                                                  *)
(*   config            BudgetManager.config (BudgetConfig)                 *)
(*   instructions      ContextAssembler.instructions                       *)
(*   preferences       UserPreferences.preferences, a dict kept as the     *)
(*                     sequence of its items in insertion order            *)
(*   exchanges, total_exchanges   ConversationMemory                       *)
(*   outputs           ToolManager.outputs                                 *)
(*   clock             the wall clock add_tool_output stamps records with  *)
(*   store             what the vector store's search returns              *)
(*   pc                the step of the assemble call in progress           *)
(*   query, include    the arguments of that call                          *)
(*   raw_context, first, final_context, truncation_details,                *)
(*   truncation_applied, final    the locals of assemble                   *)
(*   failure           the collaborator call that raised during gathering  *)
(*   p_fn, p_in, p_out a direct call of one Prioritizer or TokenCounter    *)
(*                     function: which, its arguments, its result          *)
(***************************************************************************)
VARIABLES config, instructions, preferences, exchanges, total_exchanges,
          outputs, clock, store, pc, query, include, raw_context, first,
          final_context, truncation_details, truncation_applied, final,
          failure, p_fn, p_in, p_out

collaborators == <<preferences, exchanges, total_exchanges, outputs, clock, store>>
call == <<pc, query, include, raw_context, first, final_context,
          truncation_details, truncation_applied, final, failure>>
direct == <<p_fn, p_in, p_out>>
vars == <<config, instructions, collaborators, call, direct>>

Sections == {"instructions", "goal", "memory", "retrieval", "tool_outputs"}

EmptyDict == [s \in {} |-> 0]
EmptyContext == [s \in Sections |-> <<>>]

----------------------------------------------------------------------------
(***************************************************************************)
(* BudgetConfig, BudgetAllocation, BudgetManager.                          *)
(***************************************************************************)
\* BudgetConfig.total and BudgetAllocation.total
Total(b) == b.instructions + b.goal + b.memory + b.retrieval + b.tool_outputs

get_section_budget(section) ==
    IF section \in Sections THEN config[section] ELSE 0

\* BudgetAllocation(...) built by validate_context
Measure(context_parts) ==
    [s \in Sections |-> count_tokens(context_parts[s])]

\* validate_context with >= for >: a section exactly at capacity counts as over
validate_context_ge(context_parts) ==
    LET allocation == Measure(context_parts)
        over == {s \in Sections : allocation[s] >= config[s]}
        overages == [s \in over |-> allocation[s] - config[s]]
    IN  [valid |-> (over = {}),
         allocation |-> allocation,
         overages |-> overages,
         total_exceeded |-> (Total(allocation) > Total(config))]

\* validate_context judging by the total alone
validate_context_total(context_parts) ==
    LET allocation == Measure(context_parts)
        over == {s \in Sections : allocation[s] > config[s]}
        overages == [s \in over |-> allocation[s] - config[s]]
    IN  [valid |-> (Total(allocation) <= Total(config)),
         allocation |-> allocation,
         overages |-> overages,
         total_exceeded |-> (Total(allocation) > Total(config))]

validate_context(context_parts) ==
    LET allocation == Measure(context_parts)
        over == {s \in Sections : allocation[s] > config[s]}
        overages == [s \in over |-> allocation[s] - config[s]]
    IN  [valid |-> (over = {}),
         allocation |-> allocation,
         overages |-> overages,
         total_exceeded |-> (Total(allocation) > Total(config))]

OK == <<"O", "K">>
EXCEEDED == <<"E", "X", "C", "E", "E", "D", "E", "D">>
BAR_LENGTH == 30

\* one line of format_budget_report: the bar, used/budget, the percentage
\* (kept as the fraction used * 100 / budget) and the status; budget > 0
ReportLine(used, budget) ==
    LET filled == IF used >= budget THEN BAR_LENGTH
                  ELSE (BAR_LENGTH * used) \div budget
    IN  [bar |-> [i \in 1..BAR_LENGTH |-> IF i <= filled THEN "=" ELSE "-"],
         used |-> used,
         budget |-> budget,
         percentage |-> <<used * 100, budget>>,
         status |-> IF used <= budget THEN OK ELSE EXCEEDED]

\* BudgetManager.format_budget_report: used / budget for the bar is evaluated
\* for every section, so a section budget of 0 raises ZeroDivisionError
format_budget_report(allocation) ==
    IF \E s \in Sections : config[s] = 0
    THEN [raised |-> TRUE, lines |-> <<>>, total |-> <<>>]
    ELSE [raised |-> FALSE,
          lines |-> [s \in Sections |-> ReportLine(allocation[s], config[s])],
          total |-> <<Total(allocation), Total(config)>>]

NoValidation ==
    [valid |-> TRUE, allocation |-> [s \in Sections |-> 0],
     overages |-> EmptyDict, total_exceeded |-> FALSE]

----------------------------------------------------------------------------
(***************************************************************************)
(* The collaborators.                                                      *)
(***************************************************************************)
MAX_EXCHANGES == 5
MAX_OUTPUTS == 10
SIMILARITY_THRESHOLD == 700

\* a bounded queue that, once full, turns the new element away
DequeAppendKeepOldest(q, x, maxlen) ==
    IF Len(q) >= maxlen THEN q ELSE Append(q, x)

\* deque(maxlen=n).append(x)
DequeAppend(q, x, maxlen) ==
    IF Len(q) >= maxlen THEN Append(Tail(q), x) ELSE Append(q, x)

\* UserPreferences.format_for_context
PreferencesText ==
    IF Len(preferences) = 0 THEN <<>>
    ELSE UserContextLabel \o
         join(CommaSep, [i \in 1..Len(preferences) |->
                            preferences[i].key \o Colon \o preferences[i].value])

\* ConversationMemory.format_for_context
MemoryText ==
    IF Len(exchanges) = 0 THEN <<>>
    ELSE join(NlNl, [i \in 1..Len(exchanges) |->
                        ExchangeLabel \o IntStr(i) \o ColonNl \o UserLabel
                            \o exchanges[i].user \o AssistantLabel
                            \o exchanges[i].assistant])

\* ConversationMemory.get_memory_items
get_memory_items ==
    [i \in 1..Len(exchanges) |->
        UserLabel \o exchanges[i].user \o AssistantLabel \o exchanges[i].assistant]

\* ToolManager.format_for_context
ToolText ==
    IF Len(outputs) = 0 THEN <<>>
    ELSE join(NlNl, [i \in 1..Len(outputs) |->
                        ToolOutputOpen \o StatusStr(outputs[i].success) \o CloseNl
                            \o outputs[i].content])

\* ToolManager.get_recent_outputs()
get_recent_outputs == outputs

\* Retriever.retrieve: the search results at or above the threshold, as chunks
RECURSIVE RetrieveLoop(_)
RetrieveLoop(results) ==
    IF Len(results) = 0 THEN <<>>
    ELSE LET result == results[1]
         IN  IF result.score >= SIMILARITY_THRESHOLD
             THEN <<[content |-> result.content, score |-> result.score,
                     source |-> result.source,
                     tokens |-> count_tokens(result.content)]>>
                  \o RetrieveLoop(Tail(results))
             ELSE RetrieveLoop(Tail(results))

retrieve == RetrieveLoop(store)

\* Retriever.retrieve_formatted
retrieve_formatted(budget) ==
    IF Len(retrieve) = 0 THEN <<>> ELSE truncate_retrieval(retrieve, budget)

\* EnhancedRetriever.retrieve_formatted without its budget verification
enhanced_retrieve_formatted_unverified(chunks, budget) ==
    IF Len(chunks) = 0 THEN [raised |-> FALSE, text |-> <<>>]
    ELSE IF budget = 0 THEN [raised |-> TRUE, text |-> <<>>]
    ELSE [raised |-> FALSE, text |-> truncate_retrieval(chunks, budget)]

\* EnhancedRetriever.retrieve_formatted on the chunks its retrieve returned:
\* truncate_retrieval, then the emergency truncation when the formatted text
\* is over the budget. The closing log line divides by the budget, so with
\* chunks and a budget of 0 the call raises ZeroDivisionError.
enhanced_retrieve_formatted(chunks, budget) ==
    IF Len(chunks) = 0 THEN [raised |-> FALSE, text |-> <<>>]
    ELSE LET formatted == truncate_retrieval(chunks, budget)
             verified == IF count_tokens(formatted) > budget
                         THEN truncate_to_budget(formatted, budget)
                         ELSE formatted
         IN  IF budget = 0 THEN [raised |-> TRUE, text |-> <<>>]
             ELSE [raised |-> FALSE, text |-> verified]

----------------------------------------------------------------------------
(***************************************************************************)
(* ContextAssembler.                                                       *)
(***************************************************************************)
\* _gather_context reading every collaborator whatever the include flags say
gather_context_all(q, inc) ==
    LET user_prefs == PreferencesText
        goal_parts == IF Len(user_prefs) > 0 THEN <<q, Nl \o user_prefs>> ELSE <<q>>
    IN  [s \in Sections |->
            CASE s = "instructions" -> instructions
              [] s = "goal" -> join(Nl, goal_parts)
              [] s = "memory" -> MemoryText
              [] s = "retrieval" -> retrieve_formatted(config.retrieval)
              [] s = "tool_outputs" -> ToolText]

\* _gather_context; inc holds the three include flags
gather_context(q, inc) ==
    LET user_prefs == PreferencesText
        goal_parts == IF Len(user_prefs) > 0 THEN <<q, Nl \o user_prefs>> ELSE <<q>>
    IN  [s \in Sections |->
            CASE s = "instructions" -> instructions
              [] s = "goal" -> join(Nl, goal_parts)
              [] s = "memory" -> IF inc.memory THEN MemoryText ELSE <<>>
              [] s = "retrieval" ->
                    IF inc.retrieval THEN retrieve_formatted(config.retrieval)
                    ELSE <<>>
              [] s = "tool_outputs" -> IF inc.tools THEN ToolText ELSE <<>>]

\* one pass of the loop of _apply_truncation over the truncation plan; acc
\* holds the locals truncated and details (details in insertion order)
TruncateSection(section, context, acc) ==
    LET budget == get_section_budget(section)
        put(text, detail) ==
            [truncated |-> [acc.truncated EXCEPT ![section] = text],
             details |-> Append(acc.details, [section |-> section, detail |-> detail])]
    IN  CASE section = "instructions" ->
               put(truncate_instructions(context[section], budget),
                   <<"ERROR: Instructions should never be truncated">>)
          [] section = "goal" ->
               put(truncate_goal(context[section], budget),
                   <<"Truncated using start+end strategy to", budget>>)
          [] section = "memory" ->
               put(truncate_memory(get_memory_items, budget),
                   <<"Kept most recent exchanges within", budget>>)
          [] section = "retrieval" ->
               IF count_tokens(context[section]) > budget
               THEN put(truncate_to_budget(context[section], budget),
                        <<"Hard truncated to", budget>>)
               ELSE [acc EXCEPT !.truncated[section] = context[section]]
          [] section = "tool_outputs" ->
               put(truncate_tool_outputs(get_recent_outputs, budget),
                   <<"Kept recent successful outputs within", budget>>)

RECURSIVE ApplyLoop(_, _, _, _)
ApplyLoop(plan, i, context, acc) ==
    IF i > Len(plan) THEN acc
    ELSE ApplyLoop(plan, i + 1, context, TruncateSection(plan[i], context, acc))

\* _apply_truncation
apply_truncation(context, overages) ==
    ApplyLoop(prioritize_sections(overages), 1, context,
              [truncated |-> context, details |-> <<>>])

\* the collaborators _gather_context calls: the preferences always, the
\* others under their include flag
GatherConsults(inc) ==
    {"preferences"}
        \cup (IF inc.memory THEN {"memory"} ELSE {})
        \cup (IF inc.retrieval THEN {"retrieval"} ELSE {})
        \cup (IF inc.tools THEN {"tool_outputs"} ELSE {})

\* the collaborators _apply_truncation calls: get_memory_items and
\* get_recent_outputs in the branches of their sections; the retrieval branch
\* cuts the gathered text and calls no collaborator
TruncationConsults(overages) ==
    {"memory", "tool_outputs"} \cap DOMAIN overages

\* the collaborators the call in progress has called so far
Consulted ==
    IF pc = "idle" THEN {}
    ELSE GatherConsults(include)
            \cup (IF pc \in {"truncated", "done"} /\ truncation_applied
                  THEN TruncationConsults(first.overages)
                  ELSE {})

\* AssembledContext.get_full_context: the section headers
Header(section) ==
    CASE section = "instructions" ->
          <<"=", "=", "=", " ", "I", "N", "S", "T", "R", "U", "C", "T", "I", "O",
          "N", "S", " ", "=", "=", "=", "\n">>
      [] section = "memory" ->
          <<"=", "=", "=", " ", "C", "O", "N", "V", "E", "R", "S", "A", "T", "I",
          "O", "N", " ", "H", "I", "S", "T", "O", "R", "Y", " ", "=", "=",
          "=", "\n">>
      [] section = "retrieval" ->
          <<"=", "=", "=", " ", "R", "E", "L", "E", "V", "A", "N", "T", " ", "K",
          "N", "O", "W", "L", "E", "D", "G", "E", " ", "=", "=", "=", "\n">>
      [] section = "tool_outputs" ->
          <<"=", "=", "=", " ", "R", "E", "C", "E", "N", "T", " ", "A", "C", "T",
          "I", "O", "N", "S", " ", "=", "=", "=", "\n">>
      [] section = "goal" ->
          <<"=", "=", "=", " ", "U", "S", "E", "R", " ", "Q", "U", "E", "R", "Y",
          " ", "=", "=", "=", "\n">>

\* one appended part: the header, the section and, except for the goal, "\n"
Part(section, context_parts) ==
    Header(section) \o context_parts[section] \o
        (IF section = "goal" THEN <<>> ELSE Nl)

\* get_full_context appending a part for every section, empty or not
get_full_context_all(context_parts) ==
    join(Nl, <<Part("instructions", context_parts), Part("memory", context_parts),
               Part("retrieval", context_parts),
               Part("tool_outputs", context_parts), Part("goal", context_parts)>>)

get_full_context(context_parts) ==
    LET part(section) == IF Len(context_parts[section]) > 0
                         THEN <<Part(section, context_parts)>>
                         ELSE <<>>
    IN  join(Nl, part("instructions") \o part("memory") \o part("retrieval")
                    \o part("tool_outputs") \o part("goal"))

\* AssembledContext(...), what assemble returns (read when pc = "done")
assembled ==
    [context_parts |-> final_context,
     allocation |-> final.allocation,
     truncation_applied |-> truncation_applied,
     truncation_details |-> truncation_details]

\* ContextAssembler.get_assembly_report: the budget report, then the
\* truncation log or the note that nothing was truncated
get_assembly_report(result) ==
    LET budget_report == format_budget_report(result.allocation)
    IN  IF budget_report.raised THEN [raised |-> TRUE, report |-> <<>>]
        ELSE [raised |-> FALSE,
              report |-> [budget |-> budget_report,
                          truncation |->
                             IF result.truncation_applied
                             THEN result.truncation_details
                             ELSE <<"No truncation needed - all sections within budget">>]]

----------------------------------------------------------------------------
(***************************************************************************)
(* The inputs the model draws from.                                        *)
(***************************************************************************)
InstructionPool == {Rep(<<"o", "b", "e", "y", " ">>, 4)}

QueryPool ==
    {<<"w", "h", "y", "?">>,
     Rep(<<"s", "o", " ", "w", "h", "a", "t", ".", " ">>, 5)}

IncludePool == [memory : BOOLEAN, retrieval : BOOLEAN, tools : BOOLEAN]

PreferencePool ==
    {[key |-> <<"l", "v", "l">>, value |-> <<"p", "r", "o">>]}

ExchangePool ==
    {[user |-> <<"h", "i">>, assistant |-> <<"y", "o", "!">>],
     [user |-> <<"w", "h", "y", " ", "s", "o", "?">>,
      assistant |-> <<"b", "e", "c", "a", "u", "s", "e", " ", "i", "t", ".">>]}

ToolPool ==
    {[tool_name |-> <<"t">>, output |-> Rep(<<"o", "k", " ">>, 3), success |-> TRUE],
     [tool_name |-> <<"t">>, output |-> Rep(<<"b", "a", "d", " ">>, 5),
      success |-> FALSE]}

Doc(name, piece, n, score) ==
    [content |-> Rep(piece, n), score |-> score, source |-> name]

StorePool ==
    {<<>>,
     <<Doc(<<"d", "1">>, <<"a", "b", "c", " ">>, 10, 900),
       Doc(<<"d", "2">>, <<"x", "y", " ">>, 4, 650),
       Doc(<<"d", "3">>, <<"m", "n", "o", "p", " ">>, 3, 950)>>}

Cfg(i, g, m, r, t) ==
    [instructions |-> i, goal |-> g, memory |-> m, retrieval |-> r,
     tool_outputs |-> t]

ConfigPool ==
    {Cfg(10, 20, 40, 60, 40), Cfg(0, 0, 0, 0, 0), Cfg(4, 5, 10, 10, 4),
     Cfg(3, 20, 10, 55, 40), Cfg(10, 2, 40, 10, 10)}

----------------------------------------------------------------------------
(***************************************************************************)
(* Initial state: the singletons as constructed, no call in progress.      *)
(***************************************************************************)
NoCall ==
    /\ pc = "idle"
    /\ query = <<>>
    /\ include = [memory |-> TRUE, retrieval |-> TRUE, tools |-> TRUE]
    /\ raw_context = EmptyContext
    /\ first = NoValidation
    /\ final_context = EmptyContext
    /\ truncation_details = <<>>
    /\ truncation_applied = FALSE
    /\ final = NoValidation
    /\ failure = "none"

NoDirect ==
    /\ p_fn = "none"
    /\ p_in = <<>>
    /\ p_out = <<>>

Init ==
    /\ config \in ConfigPool
    /\ instructions \in InstructionPool
    /\ preferences = <<>>
    /\ exchanges = <<>>
    /\ total_exchanges = 0
    /\ outputs = <<>>
    /\ clock = 0
    /\ store \in StorePool
    /\ NoCall
    /\ NoDirect

----------------------------------------------------------------------------
(***************************************************************************)
(* The collaborators' operations (between assemble calls).                 *)
(***************************************************************************)
\* add_exchange when a returned result shares its memory text with the live
\* conversation memory: the result the caller holds is rewritten
add_exchange_shared(e) ==
    /\ pc = "idle"
    /\ total_exchanges < MaxAdds
    /\ exchanges' = DequeAppend(exchanges, e, MAX_EXCHANGES)
    /\ total_exchanges' = total_exchanges + 1
    /\ p_out' = IF p_fn = "assemble returned"
                THEN [p_out EXCEPT !.context_parts["memory"] =
                         @ \o NlNl \o UserLabel \o e.user \o AssistantLabel
                             \o e.assistant]
                ELSE p_out
    /\ UNCHANGED <<config, instructions, preferences, outputs, clock, store,
                   call, p_fn, p_in>>

\* ConversationMemory.add_exchange
add_exchange(e) ==
    /\ pc = "idle"
    /\ total_exchanges < MaxAdds
    /\ exchanges' = DequeAppend(exchanges, e, MAX_EXCHANGES)
    /\ total_exchanges' = total_exchanges + 1
    /\ UNCHANGED <<config, instructions, preferences, outputs, clock, store,
                   call, direct>>

\* ConversationMemory.clear
clear_memory ==
    /\ pc = "idle"
    /\ total_exchanges > 0
    /\ exchanges' = <<>>
    /\ total_exchanges' = 0
    /\ UNCHANGED <<config, instructions, preferences, outputs, clock, store,
                   call, direct>>

\* ToolManager.add_tool_output
add_tool_output(t) ==
    /\ pc = "idle"
    /\ clock < MaxToolAdds
    /\ clock' = clock + 1
    /\ outputs' = DequeAppend(outputs,
                              [content |-> Open \o t.tool_name \o CloseNl \o t.output,
                               timestamp |-> clock',
                               success |-> t.success,
                               tokens |-> count_tokens(t.output)],
                              MAX_OUTPUTS)
    /\ UNCHANGED <<config, instructions, preferences, exchanges, total_exchanges,
                   store, call, direct>>

\* ToolManager.clear
clear_tools ==
    /\ pc = "idle"
    /\ Len(outputs) > 0
    /\ outputs' = <<>>
    /\ UNCHANGED <<config, instructions, preferences, exchanges, total_exchanges,
                   clock, store, call, direct>>

\* dict[key] = value on a dict kept as its items in insertion order
DictSet(d, key, value) ==
    IF \E i \in 1..Len(d) : d[i].key = key
    THEN [i \in 1..Len(d) |-> IF d[i].key = key THEN [key |-> key, value |-> value]
                              ELSE d[i]]
    ELSE Append(d, [key |-> key, value |-> value])

\* UserPreferences.set_preference
set_preference(pref) ==
    /\ pc = "idle"
    /\ preferences' = DictSet(preferences, pref.key, pref.value)
    /\ preferences' # preferences
    /\ UNCHANGED <<config, instructions, exchanges, total_exchanges, outputs,
                   clock, store, call, direct>>

\* UserPreferences.clear_all
clear_all ==
    /\ pc = "idle"
    /\ Len(preferences) > 0
    /\ preferences' = <<>>
    /\ UNCHANGED <<config, instructions, exchanges, total_exchanges, outputs,
                   clock, store, call, direct>>

----------------------------------------------------------------------------
(***************************************************************************)
(* ContextAssembler.assemble, step by step.                                *)
(***************************************************************************)
\* Step 1: gather raw context from all sources
Gather(q, inc) ==
    /\ pc = "idle"
    /\ pc' = "gathered"
    /\ query' = q
    /\ include' = inc
    /\ raw_context' = gather_context(q, inc)
    /\ failure' = "none"
    /\ UNCHANGED <<config, instructions, collaborators, first, final_context,
                   truncation_details, truncation_applied, final, direct>>

\* Step 1 when the embedding call or the collection query inside
\* VectorStore.search raises: the except clause of search returns [], so
\* retrieve finds no chunks and retrieve_formatted returns ""
GatherSearchFails(q, inc) ==
    /\ pc = "idle"
    /\ inc.retrieval
    /\ pc' = "gathered"
    /\ query' = q
    /\ include' = inc
    /\ raw_context' = [gather_context(q, inc) EXCEPT !["retrieval"] = <<>>]
    /\ failure' = "search"
    /\ UNCHANGED <<config, instructions, collaborators, first, final_context,
                   truncation_details, truncation_applied, final, direct>>

\* Step 2: validate against budgets
Validate ==
    /\ pc = "gathered"
    /\ pc' = "validated"
    /\ first' = validate_context(raw_context)
    /\ UNCHANGED <<config, instructions, collaborators, query, include, failure,
                   raw_context, final_context, truncation_details,
                   truncation_applied, final, direct>>

\* step 3 trimming the conversation memory itself to the exchanges it kept
TruncateInPlace ==
    /\ pc = "validated"
    /\ ~first.valid
    /\ pc' = "truncated"
    /\ LET r == apply_truncation(raw_context, first.overages)
       IN  /\ final_context' = r.truncated
           /\ truncation_details' = r.details
    /\ truncation_applied' = TRUE
    /\ exchanges' =
          IF "memory" \in DOMAIN first.overages
          THEN LET k == Len(SelectMemory(get_memory_items, config.memory))
               IN  SubSeq(exchanges, Len(exchanges) - k + 1, Len(exchanges))
          ELSE exchanges
    /\ UNCHANGED <<config, instructions, preferences, total_exchanges, outputs,
                   clock, store, query, include, failure, raw_context, first,
                   final, direct>>

\* Step 3, not valid: apply the truncation strategies
Truncate ==
    /\ pc = "validated"
    /\ ~first.valid
    /\ pc' = "truncated"
    /\ LET r == apply_truncation(raw_context, first.overages)
       IN  /\ final_context' = r.truncated
           /\ truncation_details' = r.details
    /\ truncation_applied' = TRUE
    /\ UNCHANGED <<config, instructions, collaborators, query, include, failure,
                   raw_context, first, final, direct>>

\* step 3 returning the first validation's result when nothing was truncated,
\* without the second validation
KeepRawReturn ==
    /\ pc = "validated"
    /\ first.valid
    /\ pc' = "done"
    /\ final_context' = raw_context
    /\ truncation_details' = <<>>
    /\ truncation_applied' = FALSE
    /\ final' = first
    /\ UNCHANGED <<config, instructions, collaborators, query, include, failure,
                   raw_context, first, direct>>

\* Step 3, valid: all sections within budget
KeepRaw ==
    /\ pc = "validated"
    /\ first.valid
    /\ pc' = "truncated"
    /\ final_context' = raw_context
    /\ truncation_details' = <<>>
    /\ truncation_applied' = FALSE
    /\ UNCHANGED <<config, instructions, collaborators, query, include, failure,
                   raw_context, first, final, direct>>

\* step 4 going back to step 3 while the context is still over budget
RevalidateRetry ==
    /\ pc = "truncated"
    /\ IF validate_context(final_context).valid
       THEN /\ pc' = "done"
            /\ final' = validate_context(final_context)
       ELSE /\ pc' = "validated"
            /\ final' = final
    /\ UNCHANGED <<config, instructions, collaborators, query, include, failure,
                   raw_context, first, final_context, truncation_details,
                   truncation_applied, direct>>

\* step 5 building the result from the first validation's allocation
RevalidateKeepFirst ==
    /\ pc = "truncated"
    /\ pc' = "done"
    /\ final' = [validate_context(final_context) EXCEPT !.allocation = first.allocation]
    /\ UNCHANGED <<config, instructions, collaborators, query, include, failure,
                   raw_context, first, final_context, truncation_details,
                   truncation_applied, direct>>

\* Steps 4 and 5: validate the final context and build the result
Revalidate ==
    /\ pc = "truncated"
    /\ pc' = "done"
    /\ final' = validate_context(final_context)
    /\ UNCHANGED <<config, instructions, collaborators, query, include, failure,
                   raw_context, first, final_context, truncation_details,
                   truncation_applied, direct>>

\* the caller takes the result; the call's locals are gone
Return ==
    /\ pc = "done"
    /\ pc' = "idle"
    /\ query' = <<>>
    /\ include' = [memory |-> TRUE, retrieval |-> TRUE, tools |-> TRUE]
    /\ raw_context' = EmptyContext
    /\ first' = NoValidation
    /\ final_context' = EmptyContext
    /\ truncation_details' = <<>>
    /\ truncation_applied' = FALSE
    /\ final' = NoValidation
    /\ failure' = "none"
    /\ UNCHANGED <<config, instructions, collaborators, direct>>

Next ==
    \/ \E e \in ExchangePool : add_exchange(e)
    \/ clear_memory
    \/ \E t \in ToolPool : add_tool_output(t)
    \/ clear_tools
    \/ \E pref \in PreferencePool : set_preference(pref)
    \/ clear_all
    \/ \E q \in QueryPool, inc \in IncludePool : Gather(q, inc)
    \/ \E q \in QueryPool, inc \in IncludePool : GatherSearchFails(q, inc)
    \/ Validate
    \/ Truncate
    \/ KeepRaw
    \/ Revalidate
    \/ Return

Spec == Init /\ [][Next]_vars

\* assemble is one synchronous call: once entered, its steps run to the return
AssembleStep == Validate \/ Truncate \/ KeepRaw \/ Revalidate

\* the positions inside the call: exactly the states where a step is enabled
InCall == pc \in {"gathered", "validated", "truncated"}

\* weak fairness of the call's steps, WF_vars(AssembleStep), written out with
\* the state predicate InCall for ENABLED <<AssembleStep>>_vars
AssembleFair == []<>(~InCall) \/ []<><<AssembleStep>>_vars

SpecLive == Spec /\ AssembleFair

----------------------------------------------------------------------------
(***************************************************************************)
(* One caller issuing sequential assemble calls and keeping the result of  *)
(* the last one (in p_out) while it goes on adding exchanges and tool      *)
(* records.                                                                *)
(***************************************************************************)
SessionConfigPool == {Cfg(4, 5, 10, 10, 4), Cfg(10, 20, 40, 60, 40)}

InitSession ==
    /\ config \in SessionConfigPool
    /\ instructions \in InstructionPool
    /\ preferences = <<>>
    /\ exchanges = <<>>
    /\ total_exchanges = 0
    /\ outputs = <<>>
    /\ clock = 0
    /\ store \in StorePool
    /\ NoCall
    /\ p_fn = "session"
    /\ p_in = <<>>
    /\ p_out = <<>>

\* assemble returns: the caller holds the AssembledContext, the locals are gone
ReturnToCaller ==
    /\ pc = "done"
    /\ pc' = "idle"
    /\ p_fn' = "assemble returned"
    /\ p_out' = assembled
    /\ query' = <<>>
    /\ include' = [memory |-> TRUE, retrieval |-> TRUE, tools |-> TRUE]
    /\ raw_context' = EmptyContext
    /\ first' = NoValidation
    /\ final_context' = EmptyContext
    /\ truncation_details' = <<>>
    /\ truncation_applied' = FALSE
    /\ final' = NoValidation
    /\ failure' = "none"
    /\ UNCHANGED <<config, instructions, collaborators, p_in>>

NextSession ==
    \/ \E e \in ExchangePool : add_exchange(e)
    \/ \E t \in ToolPool : add_tool_output(t)
    \/ \E q \in QueryPool, inc \in IncludePool : Gather(q, inc)
    \/ Validate
    \/ Truncate
    \/ KeepRaw
    \/ Revalidate
    \/ ReturnToCaller

SpecSession == InitSession /\ [][NextSession]_vars

----------------------------------------------------------------------------
(***************************************************************************)
(* Direct calls of the Prioritizer's strategies, on inputs of their own.   *)
(* The singletons are parked: no collaborator state, no assemble call.     *)
(***************************************************************************)
Parked ==
    /\ config = Cfg(0, 0, 0, 0, 0)
    /\ instructions = <<>>
    /\ preferences = <<>>
    /\ exchanges = <<>>
    /\ total_exchanges = 0
    /\ outputs = <<>>
    /\ clock = 0
    /\ store = <<>>
    /\ NoCall

Range(f) == {f[i] : i \in DOMAIN f}

\* the lists of at most n elements of S
Lists(S, n) == UNION {[1..k -> S] : k \in 0..n}

\* -- truncate_memory ------------------------------------------------------
MemoryItemPool ==
    {<<"a", "b", "c", "d">>,
     <<"a", "b", " ", "c", "d", "e", "f">>,
     Rep(<<"a", "b", "c", " ">>, 3)}

\* ten exchanges of about 40 tokens each against a budget of 55
ScenarioMemory ==
    [items |-> [i \in 1..10 |->
                   Rep(<<"w", "o", "r", "d", IntStr(i - 1)[1]>>, 31)
                       \o <<" ", "e", "n", "d", ".">>],
     budget |-> 55]

MemoryInputs ==
    {[items |-> l, budget |-> b] : l \in Lists(MemoryItemPool, MaxItems), b \in 0..5}
        \cup {ScenarioMemory}

InitMemory == Parked /\ p_fn = "truncate_memory" /\ p_in \in MemoryInputs /\ p_out = <<>>

call_truncate_memory ==
    /\ p_fn = "truncate_memory"
    /\ p_fn' = "truncate_memory returned"
    /\ p_out' = [selected |-> SelectMemory(p_in.items, p_in.budget),
                 text |-> truncate_memory(p_in.items, p_in.budget)]
    /\ UNCHANGED <<config, instructions, collaborators, call, p_in>>

SpecMemory == InitMemory /\ [][call_truncate_memory]_vars

\* -- truncate_retrieval ---------------------------------------------------
Chunk(piece, n, score, source) ==
    [content |-> Rep(piece, n), score |-> score, source |-> source,
     tokens |-> count_tokens(Rep(piece, n))]

ChunkPool ==
    {Chunk(<<"a", "b", "c", " ">>, n, sc, <<"d", "1">>) : n \in {3, 60}, sc \in {700, 900}}
        \cup {Chunk(<<"w", "e", "b", " ", "x", " ">>, 7, 800, <<"w", "e", "b">>)}

RetrievalInputs ==
    {[chunks |-> l, budget |-> b] :
        l \in Lists(ChunkPool, MaxChunks), b \in {0, 2, 10, 52, 61, 70}}

InitRetrieval ==
    Parked /\ p_fn = "truncate_retrieval" /\ p_in \in RetrievalInputs /\ p_out = <<>>

call_truncate_retrieval ==
    /\ p_fn = "truncate_retrieval"
    /\ p_fn' = "truncate_retrieval returned"
    /\ p_out' = [selected |-> IF Len(p_in.chunks) = 0 THEN <<>>
                              ELSE SelectRetrieval(p_in.chunks, p_in.budget),
                 text |-> truncate_retrieval(p_in.chunks, p_in.budget)]
    /\ UNCHANGED <<config, instructions, collaborators, call, p_in>>

SpecRetrieval == InitRetrieval /\ [][call_truncate_retrieval]_vars

\* -- truncate_tool_outputs ------------------------------------------------
RecordPool ==
    {[content |-> Open \o <<"t">> \o CloseNl \o Rep(<<"o", "k", " ">>, 2 * tk),
      timestamp |-> ts, success |-> ok, tokens |-> tk] :
        ts \in 1..3, ok \in BOOLEAN, tk \in {1, 3}}

ToolInputs ==
    {[outputs |-> l, budget |-> b] :
        l \in Lists(RecordPool, MaxRecords), b \in {0, 1, 3, 4, 6}}

InitTools ==
    Parked /\ p_fn = "truncate_tool_outputs" /\ p_in \in ToolInputs /\ p_out = <<>>

call_truncate_tool_outputs ==
    /\ p_fn = "truncate_tool_outputs"
    /\ p_fn' = "truncate_tool_outputs returned"
    /\ p_out' = [kept |-> SelectToolIdx(p_in.outputs, p_in.budget),
                 text |-> truncate_tool_outputs(p_in.outputs, p_in.budget)]
    /\ UNCHANGED <<config, instructions, collaborators, call, p_in>>

SpecTools == InitTools /\ [][call_truncate_tool_outputs]_vars

\* -- truncate_goal --------------------------------------------------------
GoalPieces ==
    {<<"I", " ", "n", "e", "e", "d", " ", "i", "t", ".", " ">>,
     <<"a", "b", "c", "d", "e", "f", "g", "h">>,
     <<" ", "s", "o", ".", " ", "w", "h", "y", "?">>,
     Rep(<<"x", "y", " ">>, 7)}

RECURSIVE Concat(_)
Concat(parts) == IF Len(parts) = 0 THEN <<>> ELSE parts[1] \o Concat(Tail(parts))

GoalInputs ==
    {[goal |-> Concat(l), budget |-> b] :
        l \in Lists(GoalPieces, MaxPieces), b \in 0..9}

InitGoal == Parked /\ p_fn = "truncate_goal" /\ p_in \in GoalInputs /\ p_out = <<>>

call_truncate_goal ==
    /\ p_fn = "truncate_goal"
    /\ p_fn' = "truncate_goal returned"
    /\ p_out' = truncate_goal(p_in.goal, p_in.budget)
    /\ UNCHANGED <<config, instructions, collaborators, call, p_in>>

SpecGoal == InitGoal /\ [][call_truncate_goal]_vars

\* -- EnhancedRetriever.retrieve_formatted ----------------------------------
CorpusPrefix == <<"c", "o", "r", "p", "u", "s", ":">>
WebPrefix == <<"w", "e", "b", ":">>
WebOpen == <<"[", "W", "e", "b", ":", " ">>

\* a chunk as EnhancedRetriever.retrieve builds it from a corpus result
CorpusChunk(piece, n, score, filename) ==
    [content |-> Rep(piece, n), score |-> score,
     source |-> CorpusPrefix \o filename,
     tokens |-> count_tokens(Rep(piece, n))]

\* a chunk as _scrape_and_embed_web_results builds it: the title line is part
\* of the content, the tokens are those of the scraped content alone
WebChunk(title, piece, n, score, url) ==
    [content |-> WebOpen \o title \o CloseNl \o Rep(piece, n), score |-> score,
     source |-> WebPrefix \o url,
     tokens |-> count_tokens(Rep(piece, n))]

EnhancedChunkPool ==
    {CorpusChunk(<<"a", "b", "c", " ">>, 3, 900, <<"d", "1">>),
     CorpusChunk(<<"a", "b", "c", " ">>, 60, 700, <<"d", "2">>),
     WebChunk(<<"n", "e", "w", "s">>, <<"w", "e", "b", " ", "x", " ">>, 7, 800, <<"u", "1">>),
     WebChunk(<<"n", "e", "w", "s">>, <<"w", "e", "b", " ", "x", " ">>, 40, 900, <<"u", "2">>)}

\* retrieve returns the chunks sorted by score, highest first
EnhancedInputs ==
    {[chunks |-> SortChunks(l), budget |-> b] :
        l \in Lists(EnhancedChunkPool, MaxChunks), b \in {0, 1, 2, 10, 52, 61, 70}}

InitEnhanced ==
    Parked /\ p_fn = "retrieve_formatted" /\ p_in \in EnhancedInputs /\ p_out = <<>>

call_retrieve_formatted ==
    /\ p_fn = "retrieve_formatted"
    /\ LET r == enhanced_retrieve_formatted(p_in.chunks, p_in.budget)
       IN  /\ p_fn' = IF r.raised THEN "retrieve_formatted raised"
                      ELSE "retrieve_formatted returned"
           /\ p_out' = r.text
    /\ UNCHANGED <<config, instructions, collaborators, call, p_in>>

SpecEnhanced == InitEnhanced /\ [][call_retrieve_formatted]_vars

\* -- truncate_to_budget ---------------------------------------------------
TextInputs ==
    {[text |-> Concat(l), budget |-> b] :
        l \in Lists(GoalPieces, MaxPieces), b \in 0..9}

InitText ==
    Parked /\ p_fn = "truncate_to_budget" /\ p_in \in TextInputs /\ p_out = <<>>

call_truncate_to_budget ==
    /\ p_fn = "truncate_to_budget"
    /\ p_fn' = "truncate_to_budget returned"
    /\ p_out' = truncate_to_budget(p_in.text, p_in.budget)
    /\ UNCHANGED <<config, instructions, collaborators, call, p_in>>

SpecText == InitText /\ [][call_truncate_to_budget]_vars

\* -- AssembledContext.get_full_context ------------------------------------
SectionTextPool ==
    {<<>>, <<"a", "b">>, <<"c", " ", "d", "\n", "e">>}

PartsInputs == [Sections -> SectionTextPool]

InitParts ==
    Parked /\ p_fn = "get_full_context" /\ p_in \in PartsInputs /\ p_out = <<>>

call_get_full_context ==
    /\ p_fn = "get_full_context"
    /\ p_fn' = "get_full_context returned"
    /\ p_out' = get_full_context(p_in)
    /\ UNCHANGED <<config, instructions, collaborators, call, p_in>>

SpecParts == InitParts /\ [][call_get_full_context]_vars

----------------------------------------------------------------------------
(***************************************************************************)
(* A long conversation on the ConversationMemory alone: more exchanges     *)
(* than max_exchanges are added.  p_in is the caller's own record of what  *)
(* it has said since the memory was last cleared.                          *)
(***************************************************************************)
InitConversation ==
    /\ Parked
    /\ p_fn = "conversation"
    /\ p_in = <<>>
    /\ p_out = <<>>

\* ConversationMemory.add_exchange, the caller noting the exchange
say(e) ==
    /\ p_fn = "conversation"
    /\ Len(p_in) < MaxSaid
    /\ exchanges' = DequeAppend(exchanges, e, MAX_EXCHANGES)
    /\ total_exchanges' = total_exchanges + 1
    /\ p_in' = Append(p_in, e)
    /\ UNCHANGED <<config, instructions, preferences, outputs, clock, store,
                   call, p_fn, p_out>>

\* ConversationMemory.clear, the caller starting its record afresh
forget ==
    /\ p_fn = "conversation"
    /\ Len(p_in) > 0
    /\ exchanges' = <<>>
    /\ total_exchanges' = 0
    /\ p_in' = <<>>
    /\ UNCHANGED <<config, instructions, preferences, outputs, clock, store,
                   call, p_fn, p_out>>

NextConversation ==
    \/ \E e \in ExchangePool : say(e)
    \/ forget

SpecConversation == InitConversation /\ [][NextConversation]_vars

----------------------------------------------------------------------------
\* -- ContextAssembler.get_assembly_report ---------------------------------
ReportConfigPool ==
    {Cfg(10, 20, 40, 60, 40), Cfg(4, 5, 10, 10, 4), Cfg(10, 20, 0, 60, 40),
     Cfg(0, 0, 0, 0, 0)}

UsagePool == {0, 4, 12}

\* the results of assemble: an allocation, and a log when truncation applied
ResultPool ==
    {[context_parts |-> EmptyContext,
      allocation |-> a,
      truncation_applied |-> t,
      truncation_details |->
         IF t THEN <<[section |-> "memory",
                      detail |-> <<"Kept most recent exchanges within">>]>>
         ELSE <<>>] : a \in [Sections -> UsagePool], t \in BOOLEAN}

InitReport ==
    /\ config \in ReportConfigPool
    /\ instructions = <<>>
    /\ preferences = <<>>
    /\ exchanges = <<>>
    /\ total_exchanges = 0
    /\ outputs = <<>>
    /\ clock = 0
    /\ store = <<>>
    /\ NoCall
    /\ p_fn = "get_assembly_report"
    /\ p_in \in ResultPool
    /\ p_out = <<>>

call_get_assembly_report ==
    /\ p_fn = "get_assembly_report"
    /\ LET r == get_assembly_report(p_in)
       IN  /\ p_fn' = IF r.raised THEN "get_assembly_report raised"
                      ELSE "get_assembly_report returned"
           /\ p_out' = r.report
    /\ UNCHANGED <<config, instructions, collaborators, call, p_in>>

SpecReport == InitReport /\ [][call_get_assembly_report]_vars

----------------------------------------------------------------------------
(***************************************************************************)
(* Properties.                                                             *)
(***************************************************************************)
Returned == pc = "done"

WithinCapacity(context_parts) ==
    \A s \in Sections : count_tokens(context_parts[s]) <= config[s]

\* the sections of the truncation log, in the order they were written
LogSections == [i \in 1..Len(truncation_details) |-> truncation_details[i].section]

\* C1: after every assemble call the total of the returned allocation is at
\* most the configured total capacity.
C1_TotalWithinCapacity ==
    Returned => Total(assembled.allocation) <= Total(config)

\* C2: after assemble every section other than instructions measures at most
\* its capacity, and instructions exceed theirs only if the gathered
\* instructions already did.
C2_SectionsWithinCapacity ==
    Returned =>
        /\ \A s \in Sections \ {"instructions"} :
              count_tokens(assembled.context_parts[s]) <= config[s]
        /\ count_tokens(assembled.context_parts["instructions"]) > config.instructions
              => count_tokens(raw_context["instructions"]) > config.instructions

\* C3: if every gathered section is within its capacity, assemble returns
\* truncation_applied = false, an empty truncation log and the gathered
\* content unchanged.
C3_WithinBudgetUnchanged ==
    (Returned /\ WithinCapacity(raw_context)) =>
        /\ assembled.truncation_applied = FALSE
        /\ assembled.truncation_details = <<>>
        /\ assembled.context_parts = raw_context

C3_Witness ==
    /\ Returned
    /\ WithinCapacity(raw_context)
    /\ raw_context["memory"] # <<>>
    /\ raw_context["retrieval"] # <<>>
    /\ raw_context["tool_outputs"] # <<>>
    /\ assembled.context_parts = raw_context

\* C4: the output of a truncating assembly needs no further truncation: a
\* validation of the returned context parts under the same capacities finds
\* every section within its capacity.
C4_Idempotent ==
    (Returned /\ assembled.truncation_applied) =>
        validate_context(assembled.context_parts).valid

\* C5: the truncation log lists exactly the sections that were over budget,
\* in the order memory, tool_outputs, retrieval, goal, instructions.
Rank(section) ==
    CASE section = "memory" -> 1
      [] section = "tool_outputs" -> 2
      [] section = "retrieval" -> 3
      [] section = "goal" -> 4
      [] section = "instructions" -> 5

C5_TruncationOrder ==
    pc \in {"truncated", "done"} =>
        /\ \A i, j \in 1..Len(LogSections) :
              i < j => Rank(LogSections[i]) < Rank(LogSections[j])
        /\ Range(LogSections) = DOMAIN first.overages

C5_Witness ==
    /\ Returned
    /\ DOMAIN first.overages = {"memory", "goal", "retrieval"}
    /\ LogSections = <<"memory", "retrieval", "goal">>

\* C6: the instructions section of the result is the gathered instructions
\* text, over capacity or not; a call whose instructions were over capacity
\* returns with the overage logged and still reported by the validation.
C6_InstructionsNeverTruncated ==
    /\ pc \in {"truncated", "done"} =>
          /\ raw_context["instructions"] = instructions
          /\ final_context["instructions"] = instructions
    /\ (Returned /\ count_tokens(instructions) > config.instructions) =>
          /\ "instructions" \in Range(LogSections)
          /\ "instructions" \in DOMAIN final.overages
          /\ assembled.context_parts["instructions"] = instructions

C6_Witness ==
    /\ Returned
    /\ count_tokens(instructions) > config.instructions
    /\ "instructions" \in Range(LogSections)
    /\ assembled.context_parts["instructions"] = instructions

\* C7: truncate_memory keeps exactly the longest suffix of the items whose
\* token counts sum to at most the budget, in the original order; of ten
\* 40-token exchanges against a budget of 55 it keeps the most recent one.
RECURSIVE SuffixTokens(_, _)
SuffixTokens(items, j) ==
    IF j = 0 THEN 0
    ELSE count_tokens(items[Len(items) - j + 1]) + SuffixTokens(items, j - 1)

C7_MemoryKeepsLongestSuffix ==
    p_fn = "truncate_memory returned" =>
        LET items == p_in.items
            n == Len(items)
            k == Len(p_out.selected)
        IN  /\ k <= n
            /\ p_out.selected = SubSeq(items, n - k + 1, n)
            /\ SuffixTokens(items, k) <= p_in.budget
            /\ \A j \in (k + 1)..n : SuffixTokens(items, j) > p_in.budget
            /\ p_out.text = join(Nl, SubSeq(items, n - k + 1, n))
            /\ p_in = ScenarioMemory => p_out.selected = <<items[10]>>

C7_Witness ==
    /\ p_fn = "truncate_memory returned"
    /\ Len(p_in.items) = 10
    /\ p_in.budget = 55
    /\ \A i \in 1..10 : count_tokens(p_in.items[i]) = 40
    /\ p_out.text = p_in.items[10]

\* C8: truncate_retrieval emits the accepted chunks in descending score
\* order; a partial chunk is the last entry, and it is the cut of a chunk that
\* did not fit whole in the budget left.
RECURSIVE TokensBefore(_, _)
TokensBefore(selected, i) ==
    IF i <= 1 THEN 0 ELSE selected[i - 1].tokens + TokensBefore(selected, i - 1)

C8_RetrievalOrderPartialLast ==
    p_fn = "truncate_retrieval returned" =>
        LET sel == p_out.selected
            chunks == p_in.chunks
        IN  /\ \A i, j \in 1..Len(sel) : i < j => sel[i].score >= sel[j].score
            /\ \A i \in 1..Len(sel) :
                  sel[i] \notin Range(chunks) =>
                      /\ i = Len(sel)
                      /\ \E c \in Range(chunks) :
                            /\ c.score = sel[i].score
                            /\ c.source = sel[i].source
                            /\ sel[i].content = truncate_to_budget(c.content, sel[i].tokens)
                            /\ TokensBefore(sel, i) + c.tokens > p_in.budget
                            /\ TokensBefore(sel, i) + sel[i].tokens = p_in.budget

C8_Witness ==
    /\ p_fn = "truncate_retrieval returned"
    /\ Len(p_out.selected) = 3
    /\ p_out.selected[1] \in Range(p_in.chunks)
    /\ p_out.selected[2] \in Range(p_in.chunks)
    /\ p_out.selected[3] \notin Range(p_in.chunks)
    /\ p_out.selected[1].score > p_out.selected[2].score

\* C9: truncate_tool_outputs keeps no failed record while it drops a
\* successful one, and among records of equal success status keeps no older
\* record while it drops a newer one.
C9_FailedDroppedFirst ==
    p_fn = "truncate_tool_outputs returned" =>
        LET outs == p_in.outputs
            kept == Range(p_out.kept)
        IN  /\ kept \subseteq 1..Len(outs)
            /\ Cardinality(kept) = Len(p_out.kept)
            /\ \A i \in kept, j \in (1..Len(outs)) \ kept :
                  /\ ~(~outs[i].success /\ outs[j].success)
                  /\ ~(outs[i].success = outs[j].success
                          /\ outs[i].timestamp < outs[j].timestamp)

C9_Witness ==
    /\ p_fn = "truncate_tool_outputs returned"
    /\ LET outs == p_in.outputs
           kept == Range(p_out.kept)
       IN  /\ \E i \in kept, j \in (1..Len(outs)) \ kept :
                 /\ outs[i].success
                 /\ ~outs[j].success
                 /\ outs[j].timestamp > outs[i].timestamp
           /\ \A j \in (1..Len(outs)) \ kept : ~outs[j].success

\* C10: for a goal over the capacity, truncate_goal returns text of at most
\* capacity tokens made of a prefix of the goal, the gap marker and a suffix
\* of the goal (the goal's surrounding whitespace aside).
PrefixGapSuffix(out, goal) ==
    \E a, b \in 0..Len(goal) :
        out = Prefix(goal, a) \o GapMarker \o SubSeq(goal, Len(goal) - b + 1, Len(goal))

C10_GoalWithinCapacity ==
    (p_fn = "truncate_goal returned" /\ count_tokens(p_in.goal) > p_in.budget) =>
        /\ count_tokens(p_out) <= p_in.budget
        /\ PrefixGapSuffix(p_out, strip(p_in.goal))

\* C11: when the re-validation finds a section still over its capacity,
\* assemble trims that section with truncate_to_budget to its budget before
\* returning, and the returned section is within capacity.
C11_HardFallback ==
    [][Revalidate =>
          \A s \in Sections :
              count_tokens(final_context[s]) > config[s] =>
                  /\ final_context'[s] = truncate_to_budget(final_context[s], config[s])
                  /\ count_tokens(final_context'[s]) <= config[s]]_vars

\* C12: an assemble call whose collaborators return normally always reaches
\* its return, with a result holding the five sections and their measured
\* allocation, whichever sections are over budget.
C12_AssembleReturns ==
    /\ (pc # "idle") ~> (pc = "done")
    /\ [](pc = "done" =>
            /\ DOMAIN assembled.context_parts = Sections
            /\ assembled.allocation = Measure(assembled.context_parts))

C12_Witness ==
    /\ Returned
    /\ Cardinality(DOMAIN first.overages) >= 4
    /\ DOMAIN final.overages # {}

\* C13: a collaborator call that fails during gathering ends the assemble
\* call in an error: the call goes no further and returns no result.
C13_FailurePropagates ==
    failure # "none" => pc \notin {"gathered", "validated", "truncated", "done"}

\* C14: validate reports, for each of the five sections, the overage
\* max(0, used - capacity) of its measured token count; the overage map holds
\* exactly the sections of positive overage, and valid says there is none.
Validated(parts, v) ==
    LET used(s) == count_tokens(parts[s])
        overage(s) == Max(0, used(s) - config[s])
    IN  /\ \A s \in Sections : v.allocation[s] = used(s)
        /\ DOMAIN v.overages = {s \in Sections : overage(s) > 0}
        /\ \A s \in DOMAIN v.overages : v.overages[s] = overage(s)
        /\ v.valid = (\A s \in Sections : overage(s) = 0)

C14_ValidateOverages ==
    /\ pc \in {"validated", "truncated", "done"} => Validated(raw_context, first)
    /\ pc = "done" => Validated(final_context, final)

C14_Witness ==
    /\ Returned
    /\ ~first.valid
    /\ Cardinality(DOMAIN first.overages) >= 2
    /\ \E s \in Sections : config[s] > 0 /\ count_tokens(raw_context[s]) = config[s]
    /\ Total(first.allocation) <= Total(config)

\* C15: for every text and every budget >= 0 truncate_to_budget returns a
\* text of at most budget tokens, the marker included, and returns the text
\* unchanged when it already fits.
C15_TruncateWithinBudget ==
    p_fn = "truncate_to_budget returned" =>
        /\ count_tokens(p_out) <= p_in.budget
        /\ count_tokens(p_in.text) <= p_in.budget => p_out = p_in.text

\* C16: a call goes through gather, validate, truncate-if-needed and
\* re-validate in that order and through each once: the gathered content is
\* fixed by step 1, each validation is taken at its own position, and the
\* truncation strategies run between the two iff the first validation failed.
C16_StepOrder ==
    [][/\ pc = "idle" => /\ pc' = "gathered"
                         /\ raw_context'["instructions"] = instructions
       /\ pc = "gathered" => /\ pc' = "validated"
                             /\ raw_context' = raw_context
                             /\ first' = validate_context(raw_context)
       /\ pc = "validated" => /\ pc' = "truncated"
                              /\ <<raw_context, first>>' = <<raw_context, first>>
                              /\ truncation_applied' = ~first.valid
                              /\ first.valid => final_context' = raw_context
                              /\ ~first.valid =>
                                    /\ final_context' =
                                         apply_truncation(raw_context, first.overages).truncated
                                    /\ truncation_details' # <<>>
       /\ pc = "truncated" => /\ pc' = "done"
                              /\ <<raw_context, first, final_context>>'
                                    = <<raw_context, first, final_context>>
                              /\ final' = validate_context(final_context)
       /\ pc = "done" => pc' = "idle"]_call

C16_Witness ==
    /\ Returned
    /\ ~first.valid
    /\ truncation_applied
    /\ final.valid
    /\ final.allocation # first.allocation

\* C17: the flattened prompt holds exactly the non-empty sections, each once
\* under its header, in the order instructions, memory, retrieval, tool
\* outputs, goal, with nothing but line breaks around them; an empty section
\* leaves no trace.
Occurrences(h, t) ==
    {i \in 1..(Len(t) - Len(h) + 1) : SubSeq(t, i, i + Len(h) - 1) = h}

NonBreaks(t) == Cardinality({i \in 1..Len(t) : t[i] # "\n"})

FlatRank(section) ==
    CASE section = "instructions" -> 1
      [] section = "memory" -> 2
      [] section = "retrieval" -> 3
      [] section = "tool_outputs" -> 4
      [] section = "goal" -> 5

C17_FlattenedPrompt ==
    p_fn = "get_full_context returned" =>
        LET nonempty == {s \in Sections : p_in[s] # <<>>}
            at(s) == Occurrences(Header(s) \o p_in[s], p_out)
            size(s) == IF s \in nonempty
                       THEN NonBreaks(Header(s)) + NonBreaks(p_in[s])
                       ELSE 0
        IN  /\ \A s \in Sections \ nonempty : Occurrences(Header(s), p_out) = {}
            /\ \A s \in nonempty : /\ Cardinality(Occurrences(Header(s), p_out)) = 1
                                   /\ Cardinality(at(s)) = 1
            /\ \A s, r \in nonempty :
                  FlatRank(s) < FlatRank(r) =>
                      \A i \in at(s), j \in at(r) : i + Len(Header(s) \o p_in[s]) <= j
            /\ NonBreaks(p_out) = size("instructions") + size("memory")
                  + size("retrieval") + size("tool_outputs") + size("goal")

C17_Witness ==
    /\ p_fn = "get_full_context returned"
    /\ {s \in Sections : p_in[s] # <<>>} = {"instructions", "retrieval", "goal"}
    /\ Occurrences(Header("retrieval"), p_out) # {}
    /\ Occurrences(Header("memory"), p_out) = {}

\* C18: the text EnhancedRetriever.retrieve_formatted returns, headers and
\* separators included, measures at most the budget, for every chunk list and
\* every budget.
C18_EnhancedWithinBudget ==
    p_fn = "retrieve_formatted returned" => count_tokens(p_out) <= p_in.budget

C18_Witness ==
    /\ p_fn = "retrieve_formatted returned"
    /\ Len(p_in.chunks) >= 2
    /\ count_tokens(truncate_retrieval(p_in.chunks, p_in.budget)) > p_in.budget
    /\ p_out = truncate_to_budget(truncate_retrieval(p_in.chunks, p_in.budget),
                                  p_in.budget)
    /\ count_tokens(p_out) >= 1

\* C19: no step of an assemble call changes the budget configuration, the
\* memory, the tool-output history, the preferences or the store, truncation
\* or not; the validations and the truncation leave the context parts they
\* are given as they were.
C19_CoreOnlyReads ==
    [][(pc # "idle" \/ pc' # "idle") =>
          /\ <<config, instructions, preferences, exchanges, total_exchanges,
               outputs, clock, store>>'
                = <<config, instructions, preferences, exchanges, total_exchanges,
                    outputs, clock, store>>
          /\ pc \in {"gathered", "validated", "truncated"} => raw_context' = raw_context
          /\ pc = "truncated" => final_context' = final_context]_vars

C19_Witness ==
    /\ Returned
    /\ truncation_applied
    /\ {"memory", "tool_outputs"} \subseteq DOMAIN first.overages
    /\ Len(exchanges) = 2
    /\ outputs # <<>>
    /\ preferences # <<>>
    /\ final_context["memory"] # raw_context["memory"]

\* C20: the truncation step processes only the sections of the overage map:
\* a section within capacity at the first validation has exactly its
\* gathered content in the result, whatever happens to the other sections.
C20_WithinCapacityKept ==
    (pc = "done" /\ truncation_applied) =>
        /\ \A i \in DOMAIN LogSections : LogSections[i] \in DOMAIN first.overages
        /\ \A s \in Sections \ DOMAIN first.overages :
              assembled.context_parts[s] = raw_context[s]

C20_Witness ==
    /\ Returned
    /\ truncation_applied
    /\ "memory" \in DOMAIN first.overages
    /\ final_context["memory"] # raw_context["memory"]
    /\ "tool_outputs" \notin DOMAIN first.overages
    /\ Len(outputs) >= 2
    /\ final_context["tool_outputs"] = ToolText

\* C21: truncate_retrieval accepts whole chunks in descending score order
\* while the cumulative tokens stay within the budget; at the first chunk that
\* does not fit it adds a partial of that chunk, sized to the budget left,
\* iff more than 50 tokens are left, and accepts nothing after it; the token
\* sizes of the accepted entries never sum to more than the budget.
RECURSIVE PrefixTokens(_, _)
PrefixTokens(chunks, k) ==
    IF k = 0 THEN 0 ELSE chunks[k].tokens + PrefixTokens(chunks, k - 1)

\* the number of leading chunks that fit whole
WholeCount(sorted, budget) ==
    CHOOSE k \in 0..Len(sorted) :
        /\ PrefixTokens(sorted, k) <= budget
        /\ k < Len(sorted) => PrefixTokens(sorted, k + 1) > budget

C21_RetrievalWholeThenPartial ==
    p_fn = "truncate_retrieval returned" =>
        LET sel == p_out.selected
            sorted == SortChunks(p_in.chunks)
            budget == p_in.budget
            k == WholeCount(sorted, budget)
            left == budget - PrefixTokens(sorted, k)
            partial == k < Len(sorted) /\ left > MIN_PARTIAL
        IN  /\ \A i \in 1..(Len(sorted) - 1) : sorted[i].score >= sorted[i + 1].score
            /\ Len(sel) = IF partial THEN k + 1 ELSE k
            /\ SubSeq(sel, 1, k) = SubSeq(sorted, 1, k)
            /\ partial =>
                  sel[k + 1] = [content |-> truncate_to_budget(sorted[k + 1].content, left),
                                score |-> sorted[k + 1].score,
                                source |-> sorted[k + 1].source,
                                tokens |-> left]
            /\ PrefixTokens(sel, Len(sel)) <= budget

\* a chunk that does not fit with 50 tokens or fewer left, followed by a chunk
\* that would have fitted
C21_Witness ==
    /\ p_fn = "truncate_retrieval returned"
    /\ LET sorted == SortChunks(p_in.chunks)
           k == WholeCount(sorted, p_in.budget)
           left == p_in.budget - PrefixTokens(sorted, k)
       IN  /\ k >= 1
           /\ k + 2 <= Len(sorted)
           /\ left > 0
           /\ left <= MIN_PARTIAL
           /\ sorted[k + 2].tokens <= left
           /\ Len(p_out.selected) = k

\* C22: truncate_tool_outputs keeps exactly the longest prefix of the records
\* sorted successful first and then newer first whose cumulative tokens are at
\* most the budget: it stops at the first record that does not fit, accepts no
\* later record, and emits every kept record whole.
\* idx lists the records successful first, then newer first; records with the
\* same key stay in their original order
SortedBySuccessThenTime(outs, idx) ==
    /\ Range(idx) = 1..Len(outs)
    /\ \A a, b \in 1..Len(idx) :
          a < b =>
             LET x == outs[idx[a]]
                 y == outs[idx[b]]
             IN  \/ (x.success /\ ~y.success)
                 \/ (x.success = y.success /\ x.timestamp > y.timestamp)
                 \/ (x.success = y.success /\ x.timestamp = y.timestamp
                        /\ idx[a] < idx[b])

RECURSIVE RecordTokens(_, _, _)
RecordTokens(outs, idx, k) ==
    IF k = 0 THEN 0 ELSE outs[idx[k]].tokens + RecordTokens(outs, idx, k - 1)

C22_ToolsKeepLongestPrefix ==
    p_fn = "truncate_tool_outputs returned" =>
        LET outs == p_in.outputs
            n == Len(outs)
            kept == p_out.kept
            k == Len(kept)
        IN  /\ \E idx \in [1..n -> 1..n] :
                  /\ SortedBySuccessThenTime(outs, idx)
                  /\ k <= n
                  /\ kept = SubSeq(idx, 1, k)
                  /\ RecordTokens(outs, idx, k) <= p_in.budget
                  /\ k < n => RecordTokens(outs, idx, k + 1) > p_in.budget
            /\ p_out.text =
                  join(NlNl, [i \in 1..k |->
                                 OutputOpen \o IntStr(i) \o Dash
                                     \o StatusStr(outs[kept[i]].success) \o CloseNl
                                     \o outs[kept[i]].content])

\* a record that does not fit is followed, in sorted order, by a smaller one
\* that would have fitted in the budget left
C22_Witness ==
    /\ p_fn = "truncate_tool_outputs returned"
    /\ LET outs == p_in.outputs
           kept == p_out.kept
           k == Len(kept)
           idx == SortOutputsIdx(outs)
       IN  /\ k >= 1
           /\ Len(outs) = 3
           /\ k + 2 <= Len(outs)
           /\ RecordTokens(outs, idx, k) + outs[idx[k + 2]].tokens <= p_in.budget
           /\ idx[k + 2] \notin Range(kept)

\* C23: truncate_to_budget is prefix-preserving: whenever it shortens a text,
\* the result with its trailing marker removed is a prefix of the original
\* text, also for texts that begin or end with whitespace.
C23_PrefixPreserving ==
    (p_fn = "truncate_to_budget returned" /\ p_out # p_in.text) =>
        LET n == Len(p_out) - Len(Ellipsis)
        IN  /\ n >= 0
            /\ SubSeq(p_out, n + 1, Len(p_out)) = Ellipsis
            /\ n <= Len(p_in.text)
            /\ SubSeq(p_out, 1, n) = SubSeq(p_in.text, 1, n)

\* C24: each of a caller's sequential assemble calls reflects the memory and
\* the tool-output history as they were when it gathered: what the truncation
\* step reads is the collaborator state the gather step read, and exchanges or
\* tool records added after the call returned do not alter the result the
\* caller holds.
C24_CallObservesGatherState ==
    /\ [](pc # "idle" =>
            /\ raw_context["memory"] = (IF include.memory THEN MemoryText ELSE <<>>)
            /\ raw_context["tool_outputs"] = (IF include.tools THEN ToolText ELSE <<>>)
            /\ (pc \in {"truncated", "done"} /\ "memory" \in DOMAIN first.overages) =>
                  final_context["memory"] = truncate_memory(get_memory_items, config.memory)
            /\ (pc \in {"truncated", "done"} /\ "tool_outputs" \in DOMAIN first.overages) =>
                  final_context["tool_outputs"]
                      = truncate_tool_outputs(get_recent_outputs, config.tool_outputs))
    /\ [][(p_fn = "assemble returned" /\ pc # "done") => p_out' = p_out]_vars

\* the caller holds a truncated result whose memory is neither what the memory
\* now formats to nor what truncation would now keep
C24_Witness ==
    /\ pc = "idle"
    /\ p_fn = "assemble returned"
    /\ p_out.truncation_applied
    /\ p_out.context_parts["memory"] # <<>>
    /\ Len(exchanges) = 2
    /\ Len(outputs) >= 1
    /\ p_out.context_parts["memory"] # MemoryText
    /\ p_out.context_parts["memory"] # truncate_memory(get_memory_items, config.memory)
    /\ p_out.context_parts["tool_outputs"] # ToolText

\* C25: the reporting operation returns a report for every result under
\* every configuration with capacities >= 0, a capacity of 0 included, never
\* ends in an error, and marks a section EXCEEDED iff its usage is greater
\* than its capacity.
C25_ReportAlwaysReturns ==
    /\ p_fn # "get_assembly_report raised"
    /\ p_fn = "get_assembly_report returned" =>
          \A s \in Sections :
             (p_out.budget.lines[s].status = EXCEEDED)
                 <=> (p_in.allocation[s] > config[s])

\* C26: after any sequence of add_exchange and clear, the memory holds at most
\* max_exchanges exchanges, exactly the most recent min(n, max_exchanges) of
\* the n added since the last clear, oldest first, and total_exchanges = n.
C26_MemoryHoldsMostRecent ==
    p_fn = "conversation" =>
        LET n == Len(p_in)
            k == Min(n, MAX_EXCHANGES)
        IN  /\ Len(exchanges) <= MAX_EXCHANGES
            /\ exchanges = SubSeq(p_in, n - k + 1, n)
            /\ total_exchanges = n

\* more exchanges said than the memory holds, the evicted ones unlike the kept
C26_Witness ==
    /\ p_fn = "conversation"
    /\ Len(p_in) = MAX_EXCHANGES + 2
    /\ Len(exchanges) = MAX_EXCHANGES
    /\ p_in[1] # p_in[MAX_EXCHANGES + 1]
    /\ p_in[2] # p_in[MAX_EXCHANGES + 2]
    /\ exchanges[1] = p_in[3]

\* C27: in every result the allocation agrees with the content: each of the
\* five entries is the token count of that section's text in the result, and
\* the total is the sum of the five entries.
RECURSIVE SumOver(_, _)
SumOver(f, S) ==
    IF S = {} THEN 0
    ELSE LET s == CHOOSE x \in S : TRUE
         IN  f[s] + SumOver(f, S \ {s})

C27_AllocationMatchesContent ==
    Returned =>
        /\ DOMAIN assembled.allocation = Sections
        /\ \A s \in Sections :
              assembled.allocation[s] = count_tokens(assembled.context_parts[s])
        /\ Total(assembled.allocation)
              = SumOver([s \in Sections |-> count_tokens(assembled.context_parts[s])],
                        Sections)

C27_Witness ==
    /\ Returned
    /\ assembled.truncation_applied
    /\ assembled.allocation["memory"] > 0
    /\ assembled.allocation["memory"] < first.allocation["memory"]
    /\ assembled.allocation["tool_outputs"] > 0
    /\ assembled.allocation["retrieval"] > 0
    /\ Total(assembled.allocation) < Total(first.allocation)

\* C28: truncation_applied is true iff the first validation found a section
\* over capacity; the truncation log then has one entry for each section that
\* was over capacity, instructions included, and no other; the log is empty
\* iff truncation_applied is false.
C28_LogMatchesOverages ==
    Returned =>
        /\ assembled.truncation_applied <=> (DOMAIN first.overages # {})
        /\ assembled.truncation_applied =>
              /\ Range(LogSections) = DOMAIN first.overages
              /\ Len(LogSections) = Cardinality(DOMAIN first.overages)
        /\ (assembled.truncation_details = <<>>) <=> ~assembled.truncation_applied

C28_Witness ==
    /\ Returned
    /\ assembled.truncation_applied
    /\ "instructions" \in DOMAIN first.overages
    /\ "memory" \in DOMAIN first.overages
    /\ "goal" \notin DOMAIN first.overages
    /\ Range(LogSections) = DOMAIN first.overages

\* C29: every record created by add_tool_output has a tokens field equal to
\* the token count of the record's own content, the text truncation emits, so
\* the tokens summed for the budget selection are the measured size of the
\* records selected.
C29_RecordTokensMeasureContent ==
    \A i \in 1..Len(outputs) :
        outputs[i].tokens = count_tokens(outputs[i].content)

\* C30: when an include flag is false, the section of the result is the
\* empty string, the section is neither in the overage map nor in the
\* truncation log, and its collaborator is called at no step of the call,
\* whatever the collaborator holds.
Excluded ==
    (IF include.memory THEN {} ELSE {"memory"})
        \cup (IF include.retrieval THEN {} ELSE {"retrieval"})
        \cup (IF include.tools THEN {} ELSE {"tool_outputs"})

C30_ExcludedSectionsEmpty ==
    pc # "idle" =>
        \A s \in Excluded :
            /\ raw_context[s] = <<>>
            /\ s \notin Consulted
            /\ pc \in {"validated", "truncated", "done"} => s \notin DOMAIN first.overages
            /\ pc \in {"truncated", "done"} =>
                  /\ final_context[s] = <<>>
                  /\ s \notin Range(LogSections)
            /\ pc = "done" =>
                  /\ assembled.context_parts[s] = <<>>
                  /\ s \notin DOMAIN final.overages

\* memory excluded while it holds more than its capacity, in a call that
\* truncates the tool outputs
C30_Witness ==
    /\ Returned
    /\ ~include.memory
    /\ include.tools
    /\ count_tokens(MemoryText) > config.memory
    /\ assembled.truncation_applied
    /\ "tool_outputs" \in DOMAIN first.overages
    /\ assembled.context_parts["memory"] = <<>>

====
